---- MODULE Spec2Model ----
(***************************************************************************)
(* A model of pyDiffusion's DiffusionTimeCDF (src/src/pydiffusionCDF.py):  *)
(* the Python wrapper around the compiled recurrence engine, its           *)
(* time-triggered auto-checkpoint, the evolve loops, the checkpoint files  *)
(* and the batched quantile query.                                         *)
(*                                                                         *)
(* The compiled kernel (diffusionCDF) and the fileIO module are not part   *)
(* of the sources; the operators that stand for them follow the written    *)
(* specification and are marked as such where they are defined.            *)
(***************************************************************************)
EXTENDS Integers, Sequences, FiniteSets, TLC

\* ------------------------------------------------------------------ bounds
\* Largest tMax an engine is constructed with.
MaxT == 2
\* Number of clock ticks the process clock is followed for.
MaxTicks == 4
\* Fixed-point denominator of the stored values: v stands for v / Scale.
Scale == 10
\* Longest list of quantiles handed to findQuantiles.
MaxQ == 3
\* Number of checkpoints (pairs of files) the save-and-reload scenario keeps.
MaxCkpts == 2
\* Longest the wall clock runs ahead of the process clock, in ticks.
MaxWait == 1
\* Most rows the CSV file holds when a further CSV operation is called on it.
MaxRows == 3

\* ------------------------------------------------------- program constants
\* self._save_interval = 3600 * 6
save_interval == 3600 * 6
\* One tick of time.process_time(): one whole save interval, so that an
\* elapsed time equal to the interval (not exceeding it) is a case.
ClockStep == save_interval
MaxNow == MaxTicks * ClockStep

\* Python's None, as the value of id.
None == "None"
\* The ids a caller gives an engine.
Ids == {"a"}
\* save_dir values: "." and "ckpt" exist, "nodir" does not.
Dirs == {".", "ckpt", "nodir"}
ExistingDirs == {".", "ckpt"}
Betas == {1, 2}
Seeds == {1, 2}
TMaxes == 1..MaxT
\* The quantiles asked for ("1 in N").
Quantiles == {2, 5, 20}

\* The absence of an engine object, and of a file.
Null == [null |-> TRUE]
NoFile == [kind |-> "none"]

VARIABLES
    d,       \* the engine the caller drives
    d2,      \* a second engine object: the one fromFiles returned, or a second construction
    files,   \* the file system: path -> content
    now,     \* time.process_time()
    pc,      \* "idle", the loop or the step of saveState that is running, "loaded" (fromFiles
             \* has just returned d2), or what became of a process that stopped
    loop,    \* the running loop's target time / remaining count / values written
    pre,     \* the engine as it was when the running (or last) evolve call began; for a
             \* saveState followed step by step, the engine its files held before
    last,    \* the last call made and how it ended
    autosaves, \* process_time() at the last two checkpoints the throttle wrote for d
    q,       \* the last query of d: the list it was given, that list after the call,
             \* the flag and the result
    wall,    \* the wall clock: its reading, and its reading when d's throttle was last reset
    csv      \* the CSV output: the rows in the file, the rows in the writer's buffer, the
             \* rows the running (or last) call has written, and the call that is running

vars == <<d, d2, files, now, pc, loop, pre, last, autosaves, q, wall, csv>>

\* -------------------------------------------------------------- sequences
Zeros(n) == [i \in 1..n |-> 0]
\* The first n elements of s, all of s when it has fewer: s[:n].
Prefix(s, n) == [i \in 1..(IF n < Len(s) THEN n ELSE Len(s)) |-> s[i]]
Reverse(s) == [i \in 1..Len(s) |-> s[Len(s) + 1 - i]]
Min(a, b) == IF a < b THEN a ELSE b
Max(a, b) == IF a < b THEN b ELSE a

\* ------------------------------------------------- text of numbers (fileIO, json)
\* The decimal digits of a natural number, most significant first.
RECURSIVE Digits(_)
Digits(v) == IF v < 10 THEN <<v>> ELSE Append(Digits(v \div 10), v % 10)

\* The natural number a sequence of decimal digits reads as.
RECURSIVE FromDigits(_)
FromDigits(t) ==
    IF Len(t) = 0 THEN 0
    ELSE 10 * FromDigits(SubSeq(t, 1, Len(t) - 1)) + t[Len(t)]

\* fileIO.saveArrayQuad writes one value per line; fileIO.loadArrayQuad reads
\* them back (exact textual round trip of the extended-precision type).
saveArrayQuad(values) == [kind |-> "cdf", lines |-> [i \in 1..Len(values) |-> Digits(values[i])]]
loadArrayQuad(content) == [i \in 1..Len(content.lines) |-> FromDigits(content.lines[i])]

\* json.dump / json.load of the scalars: numbers as decimal text, None as
\* null, strings quoted.
JsonOfStr(s) == <<"str", s>>
JsonOfId(id) == IF id = None THEN <<"null", "">> ELSE JsonOfStr(id)
IdOfJson(j) == IF j[1] = "null" THEN None ELSE j[2]
json_dump(v) ==
    [kind |-> "json",
     vars |-> [time |-> Digits(v.time), beta |-> Digits(v.beta), tMax |-> Digits(v.tMax),
               id |-> JsonOfId(v.id), save_dir |-> JsonOfStr(v.save_dir)]]
\* The text open(file, "w+") leaves before json.dump has written all of it:
\* not a JSON document.
TruncatedJson == [kind |-> "text"]
Malformed(content) == content.kind # "json"
json_load(content) ==
    [time |-> FromDigits(content.vars.time), beta |-> FromDigits(content.vars.beta),
     tMax |-> FromDigits(content.vars.tMax), id |-> IdOfJson(content.vars.id),
     save_dir |-> content.vars.save_dir[2]]

\* ------------------------------------------------------------ file system
\* os.path.join(self.save_dir, f"CDF{self.id}.txt") and
\* os.path.join(self.save_dir, f"Scalars{self.id}.json"): str(None) is "None".
IdNames == Ids \cup {None}
CdfPath(dir, id) == [dir |-> dir, base |-> "CDF", name |-> id]
ScalarsPath(dir, id) == [dir |-> dir, base |-> "Scalars", name |-> id]
CdfPaths == {CdfPath(dir, n) : dir \in ExistingDirs, n \in IdNames}
ScalarsPaths == {ScalarsPath(dir, n) : dir \in ExistingDirs, n \in IdNames}
Paths == CdfPaths \cup ScalarsPaths
\* A file can be created only in a directory that exists.
Writable(path) == path.dir \in ExistingDirs
Exists(fs, path) == path \in DOMAIN fs /\ fs[path] # NoFile
\* The number of CDF files there are.
CkptCount(fs) == Cardinality({p \in CdfPaths : Exists(fs, p)})

\* ------------------------------------------------ the compiled engine (kernel)
\* The transition probability the seeded Beta(beta, beta) source yields as its
\* k-th draw: a fixed function of beta, the seed and k, in 1..Scale-1.
Draw(beta, seed, k) == ((3 * seed + 5 * k + beta) % (Scale - 1)) + 1

\* diffusionCDF.DiffusionTimeCDF(beta, tMax): a zero-filled array of tMax + 1
\* values, time 0; the random source starts from entropy (some seed).
KernelInit(beta, tMax, seed) ==
    [beta |-> beta, tMax |-> tMax, time |-> 0, CDF |-> Zeros(tMax + 1),
     seed |-> seed, draws |-> 0]

\* A kernel that keeps the CDF itself in the array, not Z_B = 1 - CDF: the step
\* is taken on the complements of the valid entries and stored complemented.
KernelStep_StoresCDF(e) ==
    LET w == Draw(e.beta, e.seed, e.draws)
        z(i) == IF i = 0 THEN Scale
                ELSE IF i <= e.time + 1 /\ e.time > 0 THEN Scale - e.CDF[i]
                ELSE 0
    IN [e EXCEPT
          !.CDF = [i \in 1..Len(e.CDF) |->
                     IF i <= e.time + 2
                     THEN Scale - ((w * z(i - 1) + (Scale - w) * z(i)) \div Scale)
                     ELSE e.CDF[i]],
          !.time = e.time + 1,
          !.draws = e.draws + 1]

\* super().iterateTimeStep(): one draw, every entry valid at time + 1 becomes
\* the draw-weighted combination of its two predecessors, time grows by 1.
\* Entry n of the array is CDF[n + 1]; left of entry 0 the quantity is 1.
KernelStep(e) ==
    LET w == Draw(e.beta, e.seed, e.draws)
        left(i) == IF i = 1 THEN Scale ELSE e.CDF[i - 1]
    IN [e EXCEPT
          !.CDF = [i \in 1..Len(e.CDF) |->
                     IF i <= e.time + 2
                     THEN (w * left(i) + (Scale - w) * e.CDF[i]) \div Scale
                     ELSE e.CDF[i]],
          !.time = e.time + 1,
          !.draws = e.draws + 1]

\* super().setBetaSeed(seed): the source restarts from the seed.
KernelSetBetaSeed(e, seed) == [e EXCEPT !.seed = seed, !.draws = 0]

\* getSaveCDF(): the valid prefix, entries 0..time.
getSaveCDF(e) == Prefix(e.CDF, e.time + 1)

\* ------------------------------------------------------------- the wrapper
\* DiffusionTimeCDF.__init__ at process time t: the kernel's construction, then
\* the wrapper's own attributes.
DiffusionTimeCDF(beta, tMax, seed, t) ==
    LET k == KernelInit(beta, tMax, seed)
    IN [beta |-> k.beta, tMax |-> k.tMax, time |-> k.time, CDF |-> k.CDF,
        seed |-> k.seed, draws |-> k.draws,
        last_saved_time |-> t, id |-> None, save_dir |-> "."]

\* A dictionary that records the default directory for the one in use.
ScalarsOf_DefaultDir(e) ==
    [time |-> e.time, beta |-> e.beta, tMax |-> e.tMax, id |-> e.id, save_dir |-> "."]

\* The dictionary saveState hands to json.dump.
ScalarsOf(e) ==
    [time |-> e.time, beta |-> e.beta, tMax |-> e.tMax, id |-> e.id, save_dir |-> e.save_dir]

\* saveState(): the CDF file, then the scalars file. In a directory that does
\* not exist nothing is created and open() raises (FileNotFoundError, an
\* OSError).
saveState(e, fs) ==
    LET cdf_file == CdfPath(e.save_dir, e.id)
        scalars_file == ScalarsPath(e.save_dir, e.id)
    IN IF ~Writable(cdf_file)
       THEN [files |-> fs, err |-> "OSError"]
       ELSE [files |-> [fs EXCEPT ![cdf_file] = saveArrayQuad(getSaveCDF(e)),
                                  ![scalars_file] = json_dump(ScalarsOf(e))],
             err |-> "none"]

\* A throttle that fires as soon as the interval has passed.
SaveDue_AtInterval(e, t) == (t - e.last_saved_time) >= save_interval

\* Whether the throttle of iterateTimeStep fires at process time t.
SaveDue(e, t) == (t - e.last_saved_time) > save_interval

\* A capacity test that rejects the last step the array has room for.
AtCapacity_Early(e) == e.time + 1 >= e.tMax

\* A capacity test that lets the step at time = tMax through.
AtCapacity_OffByOne(e) == e.time > e.tMax

\* The capacity test of iterateTimeStep.
AtCapacity(e) == e.time >= e.tMax

\* An iterateTimeStep whose checkpoint draws from the random source.
iterateTimeStep_SaveDraws(e, fs, t1, t2) ==
    LET due == SaveDue(e, t1)
        sv == IF due THEN saveState(e, fs) ELSE [files |-> fs, err |-> "none"]
        e1 == IF due /\ sv.err = "none"
              THEN [e EXCEPT !.last_saved_time = t2, !.draws = e.draws + 1]
              ELSE e
    IN IF sv.err # "none"
       THEN [d |-> e, files |-> sv.files, err |-> sv.err, saved |-> FALSE, stepped |-> FALSE]
       ELSE IF AtCapacity(e1)
       THEN [d |-> e1, files |-> sv.files, err |-> "ValueError", saved |-> due, stepped |-> FALSE]
       ELSE [d |-> KernelStep(e1), files |-> sv.files, err |-> "none", saved |-> due, stepped |-> TRUE]

\* An iterateTimeStep that tests the capacity before the throttle.
iterateTimeStep_CapacityFirst(e, fs, t1, t2) ==
    LET due == SaveDue(e, t1)
        sv == IF due THEN saveState(e, fs) ELSE [files |-> fs, err |-> "none"]
        e1 == IF due /\ sv.err = "none" THEN [e EXCEPT !.last_saved_time = t2] ELSE e
    IN IF AtCapacity(e)
       THEN [d |-> e, files |-> fs, err |-> "ValueError", saved |-> FALSE, stepped |-> FALSE]
       ELSE IF sv.err # "none"
       THEN [d |-> e, files |-> sv.files, err |-> sv.err, saved |-> FALSE, stepped |-> FALSE]
       ELSE [d |-> KernelStep(e1), files |-> sv.files, err |-> "none",
             saved |-> due, stepped |-> TRUE]

\* iterateTimeStep(): t1 is process_time() as the throttle reads it, t2 as the
\* reset after saveState reads it. An exception leaves what was done before it.
iterateTimeStep(e, fs, t1, t2) ==
    LET due == SaveDue(e, t1)
        sv == IF due THEN saveState(e, fs) ELSE [files |-> fs, err |-> "none"]
        e1 == IF due /\ sv.err = "none" THEN [e EXCEPT !.last_saved_time = t2] ELSE e
    IN IF sv.err # "none"
       THEN [d |-> e, files |-> sv.files, err |-> sv.err, saved |-> FALSE, stepped |-> FALSE]
       ELSE IF AtCapacity(e1)
       THEN [d |-> e1, files |-> sv.files, err |-> "ValueError", saved |-> due, stepped |-> FALSE]
       ELSE [d |-> KernelStep(e1), files |-> sv.files, err |-> "none", saved |-> due, stepped |-> TRUE]

\* cdf[: vars["time"] + 1] = load_cdf on cdf = np.zeros(vars["tMax"] + 1): the
\* slice is cut at the array's end; a value of the slice's length is copied, a
\* single value is broadcast, anything else raises ValueError.
SliceAssign(cdf, stop, load_cdf) ==
    LET n == Min(Max(stop, 0), Len(cdf))
    IN IF Len(load_cdf) = n
       THEN [ok |-> TRUE, cdf |-> [i \in 1..Len(cdf) |-> IF i <= n THEN load_cdf[i] ELSE cdf[i]]]
       ELSE IF Len(load_cdf) = 1
       THEN [ok |-> TRUE, cdf |-> [i \in 1..Len(cdf) |-> IF i <= n THEN load_cdf[1] ELSE cdf[i]]]
       ELSE [ok |-> FALSE, cdf |-> cdf]

\* A fromFiles that hands the loaded values over as the array, without the
\* zero-filled array of tMax + 1 entries around them.
fromFiles_NoPadding(cdf_file, scalars_file, fs, seed, t) ==
    IF ~Exists(fs, scalars_file) \/ ~Exists(fs, cdf_file)
    THEN [d |-> Null, err |-> "OSError"]
    ELSE IF Malformed(fs[scalars_file])
    THEN [d |-> Null, err |-> "JSONDecodeError"]
    ELSE LET v == json_load(fs[scalars_file])
             e == DiffusionTimeCDF(v.beta, v.tMax, seed, t)
         IN [d |-> [e EXCEPT !.time = v.time, !.id = v.id, !.save_dir = v.save_dir,
                             !.CDF = loadArrayQuad(fs[cdf_file])],
             err |-> "none"]

\* fromFiles(cdf_file, scalars_file) at process time t; seed is the entropy
\* the new engine's random source starts from.
fromFiles(cdf_file, scalars_file, fs, seed, t) ==
    IF ~Exists(fs, scalars_file) \/ ~Exists(fs, cdf_file)
    THEN [d |-> Null, err |-> "OSError"]
    ELSE IF Malformed(fs[scalars_file])
    THEN [d |-> Null, err |-> "JSONDecodeError"]
    ELSE LET v == json_load(fs[scalars_file])
             load_cdf == loadArrayQuad(fs[cdf_file])
             a == SliceAssign(Zeros(v.tMax + 1), v.time + 1, load_cdf)
             e == DiffusionTimeCDF(v.beta, v.tMax, seed, t)
         IN IF ~a.ok
            THEN [d |-> Null, err |-> "ValueError"]
            ELSE [d |-> [e EXCEPT !.time = v.time, !.id = v.id,
                                  !.save_dir = v.save_dir, !.CDF = a.cdf],
                  err |-> "none"]

\* ------------------------------------------------------------- the queries
\* super().findQuantile(quantile): the position x = 2n + 2 - t of the first
\* entry n at which the stored quantity is at or below 1 / quantile.
KernelFindQuantile(e, quantile) ==
    LET hits == {n \in 0..e.time : e.CDF[n + 1] * quantile <= Scale}
        n == IF hits = {} THEN e.time + 1 ELSE CHOOSE m \in hits : \A k \in hits : m <= k
    IN 2 * n + 2 - e.time

\* s with x put before its first element that is smaller than x.
RECURSIVE InsertDesc(_, _)
InsertDesc(s, x) ==
    IF Len(s) = 0 THEN <<x>>
    ELSE IF x >= s[1] THEN <<x>> \o s
    ELSE <<s[1]>> \o InsertDesc(Tail(s), x)

\* s sorted into descending order.
RECURSIVE SortDesc(_)
SortDesc(s) == IF Len(s) = 0 THEN <<>> ELSE InsertDesc(SortDesc(Tail(s)), s[1])

\* super().findQuantiles(quantiles): the quantiles are swept in descending
\* order, one pass; the positions come back in that order.
KernelFindQuantiles(e, quantiles) ==
    LET sorted == SortDesc(quantiles)
    IN [i \in 1..Len(sorted) |-> KernelFindQuantile(e, sorted[i])]

\* findQuantile(quantile)
findQuantile(e, quantile) == KernelFindQuantile(e, quantile)

\* A findQuantiles that returns the kernel's list as it is for either flag.
findQuantiles_NoFlip(e, quantiles, descending) == KernelFindQuantiles(e, quantiles)

\* findQuantiles(quantiles, descending=False)
findQuantiles(e, quantiles, descending) ==
    IF descending
    THEN KernelFindQuantiles(e, quantiles)
    ELSE Reverse(KernelFindQuantiles(e, quantiles))

\* The lists of quantiles a caller passes.
QuantileLists == UNION {[1..n -> Quantiles] : n \in 0..MaxQ}

\* ----------------------------------------------------------------- calls
\* What is remembered of the last call: its name ("other" for a construction,
\* an attribute assignment or setBetaSeed), its integer argument (0 when it
\* has none), the exception it ended with ("none": it returned; "running":
\* it has not ended yet) and, for fromFiles, whether it read the two files the
\* immediately preceding saveState of d wrote.
Call(op, arg, err) == [op |-> op, arg |-> arg, err |-> err, roundtrip |-> FALSE]

\* The readings process_time() can give after a reading of t: the clock does
\* not run backwards, and is followed up to MaxNow.
Later(t) == {t2 \in {t, t + ClockStep} : t2 <= MaxNow}

\* The log of the throttle's checkpoints after a call at process time t that
\* wrote one or did not: the last two are kept.
Logged(log, saved, t) ==
    IF ~saved THEN log
    ELSE IF Len(log) < 2 THEN Append(log, t)
    ELSE <<log[2], t>>

Idle == pc = "idle" /\ d # Null

\* d.id = id
SetId(id) ==
    /\ Idle
    /\ d' = [d EXCEPT !.id = id]
    /\ last' = Call("other", 0, "none")
    /\ pre' = Null
    /\ UNCHANGED <<d2, files, now, pc, loop, autosaves, q, wall, csv>>

\* d.save_dir = dir
SetSaveDir(dir) ==
    /\ Idle
    /\ d' = [d EXCEPT !.save_dir = dir]
    /\ last' = Call("other", 0, "none")
    /\ pre' = Null
    /\ UNCHANGED <<d2, files, now, pc, loop, autosaves, q, wall, csv>>

\* setBetaSeed(seed)
setBetaSeed(e, seed) == KernelSetBetaSeed(e, seed)

\* d.setBetaSeed(seed)
SetBetaSeed(seed) ==
    /\ Idle
    /\ d' = setBetaSeed(d, seed)
    /\ last' = Call("other", 0, "none")
    /\ pre' = Null
    /\ UNCHANGED <<d2, files, now, pc, loop, autosaves, q, wall, csv>>

\* Process time passes (between calls, and between the passes of a loop).
Tick ==
    /\ pc # "loaded"
    /\ now + ClockStep <= MaxNow
    /\ now' = now + ClockStep
    /\ wall' = [wall EXCEPT !.now = wall.now + ClockStep]
    /\ UNCHANGED <<d, d2, files, pc, loop, pre, last, autosaves, q, csv>>

\* The process waits (it sleeps, or is scheduled out): the wall clock moves on
\* and time.process_time(), the CPU time of the process, does not.
Wait ==
    /\ pc # "loaded"
    /\ wall.now - now < MaxWait * ClockStep
    /\ wall' = [wall EXCEPT !.now = wall.now + ClockStep]
    /\ UNCHANGED <<d, d2, files, now, pc, loop, pre, last, autosaves, q, csv>>

\* The wall clock after a call that ran until process time t2 and reset the
\* throttle of d or did not.
WallAfter(t2, reset) ==
    LET w == wall.now + (t2 - now)
    IN [now |-> w, saved |-> IF reset THEN w ELSE wall.saved]

\* One call of iterateTimeStep() on the engine e, whose next value is ep: r
\* is what the call does. Process time moves during the call only while a
\* checkpoint is written.
IterateOn(e, ep, r, t2) ==
    /\ r = iterateTimeStep(e, files, now, t2)
    /\ t2 # now => r.saved
    /\ ep = r.d
    /\ files' = r.files
    /\ now' = t2

\* The outcomes of one call of iterateTimeStep() on e.
IterateOutcomes(e) == {iterateTimeStep(e, files, now, t2) : t2 \in Later(now)}

\* d.iterateTimeStep()
IterateTimeStep ==
    /\ Idle
    /\ \E t2 \in Later(now), r \in IterateOutcomes(d) :
         /\ IterateOn(d, d', r, t2)
         /\ last' = Call("iterateTimeStep", 0, r.err)
         /\ autosaves' = Logged(autosaves, r.saved, now)
         /\ wall' = WallAfter(t2, r.saved)
    /\ pre' = Null
    /\ UNCHANGED <<d2, pc, loop, q, csv>>

\* d.saveState()
SaveState ==
    /\ Idle
    /\ LET r == saveState(d, files)
       IN /\ files' = r.files
          /\ last' = Call("saveState", 0, r.err)
    /\ pre' = Null
    /\ UNCHANGED <<d, d2, now, pc, loop, autosaves, q, wall, csv>>

\* d.saveState() followed statement by statement, so that the process can stop
\* in between. The call begins: the file names are formed, nothing is written.
SaveStateBegin ==
    /\ Idle
    /\ pc' = "saveState"
    /\ pre' = fromFiles(CdfPath(d.save_dir, d.id), ScalarsPath(d.save_dir, d.id),
                        files, d.seed, now).d
    /\ last' = Call("saveState", 0, "running")
    /\ UNCHANGED <<d, d2, files, now, loop, autosaves, q, wall, csv>>

\* fileIO.saveArrayQuad opens the CDF file for writing: what it held is gone.
SaveOpenCdf ==
    /\ pc = "saveState"
    /\ LET cdf_file == CdfPath(d.save_dir, d.id)
       IN IF Writable(cdf_file)
          THEN /\ files' = [files EXCEPT ![cdf_file] = saveArrayQuad(<<>>)]
               /\ pc' = "saveCdf"
               /\ UNCHANGED last
          ELSE /\ pc' = "idle"
               /\ last' = [last EXCEPT !.err = "OSError"]
               /\ UNCHANGED files
    /\ loop' = 0
    /\ UNCHANGED <<d, d2, now, pre, autosaves, q, wall, csv>>

\* fileIO.saveArrayQuad writes the next value of getSaveCDF().
SaveWriteValue ==
    /\ pc = "saveCdf"
    /\ loop < Len(getSaveCDF(d))
    /\ files' = [files EXCEPT ![CdfPath(d.save_dir, d.id)] =
                    saveArrayQuad(Prefix(getSaveCDF(d), loop + 1))]
    /\ loop' = loop + 1
    /\ UNCHANGED <<d, d2, now, pc, pre, last, autosaves, q, wall, csv>>

\* The CDF file is complete; open(scalars_file, "w+") empties the scalars file.
SaveOpenScalars ==
    /\ pc = "saveCdf"
    /\ loop = Len(getSaveCDF(d))
    /\ files' = [files EXCEPT ![ScalarsPath(d.save_dir, d.id)] = TruncatedJson]
    /\ pc' = "saveScalars"
    /\ loop' = 0
    /\ UNCHANGED <<d, d2, now, pre, last, autosaves, q, wall, csv>>

\* json.dump(vars, f) and the end of the with block: the call returns.
SaveDumpScalars ==
    /\ pc = "saveScalars"
    /\ files' = [files EXCEPT ![ScalarsPath(d.save_dir, d.id)] = json_dump(ScalarsOf(d))]
    /\ pc' = "idle"
    /\ last' = [last EXCEPT !.err = "none"]
    /\ pre' = Null
    /\ UNCHANGED <<d, d2, now, loop, autosaves, q, wall, csv>>

\* The process stops while saveState() is running.
Crash ==
    /\ pc \in {"saveState", "saveCdf", "saveScalars"}
    /\ pc' = "crashed"
    /\ UNCHANGED <<d, d2, files, now, loop, pre, last, autosaves, q, wall, csv>>

\* A new process calls fromFiles on the two files the stopped one was writing.
Reload(seed) ==
    /\ pc = "crashed"
    /\ LET r == fromFiles(CdfPath(d.save_dir, d.id), ScalarsPath(d.save_dir, d.id),
                          files, seed, now)
       IN /\ d2' = r.d
          /\ pc' = IF r.err = "none" THEN "reloaded" ELSE "failed"
          /\ last' = Call("fromFiles", 0, r.err)
    /\ UNCHANGED <<d, files, now, loop, pre, autosaves, q, wall, csv>>

\* d = DiffusionTimeCDF(beta, tMax): another run starts with a fresh engine.
Construct(beta, tMax, seed) ==
    /\ Idle
    /\ d' = DiffusionTimeCDF(beta, tMax, seed, now)
    /\ last' = Call("other", 0, "none")
    /\ pre' = Null
    /\ autosaves' = <<>>
    /\ wall' = [wall EXCEPT !.saved = wall.now]
    /\ UNCHANGED <<d2, files, now, pc, loop, q, csv>>

\* A test of evolveToTime's loop that makes one pass too many.
KeepEvolving_OneMore(e, time) == e.time <= time

\* The test of evolveToTime's loop: while self.time < time.
KeepEvolving(e, time) == e.time < time

\* d.evolveToTime(time): the call, up to the first test of the while loop.
EvolveToTime(time) ==
    /\ Idle
    /\ pre' = d
    /\ IF KeepEvolving(d, time)
       THEN pc' = "evolveToTime" /\ loop' = time
            /\ last' = Call("evolveToTime", time, "running")
       ELSE pc' = "idle" /\ loop' = 0
            /\ last' = Call("evolveToTime", time, "none")
    /\ UNCHANGED <<d, d2, files, now, autosaves, q, wall, csv>>

\* One pass of `while self.time < time: self.iterateTimeStep()` and the test
\* that follows it.
EvolveToTimeLoop ==
    /\ pc = "evolveToTime"
    /\ \E t2 \in Later(now), r \in IterateOutcomes(d) :
         LET done == r.err # "none" \/ ~KeepEvolving(r.d, loop)
         IN /\ IterateOn(d, d', r, t2)
            /\ pc' = IF done THEN "idle" ELSE pc
            /\ loop' = IF done THEN 0 ELSE loop
            /\ last' = [last EXCEPT !.err = IF done THEN r.err ELSE "running"]
            /\ autosaves' = Logged(autosaves, r.saved, now)
            /\ wall' = WallAfter(t2, r.saved)
    /\ UNCHANGED <<d2, pre, q, csv>>

\* The passes `for _ in range(num)` makes: none for num <= 0.
RangeLen(num) == IF num > 0 THEN num ELSE 0

\* d.evolveTimesteps(num): the call, up to the first pass.
EvolveTimesteps(num) ==
    /\ Idle
    /\ pre' = d
    /\ IF RangeLen(num) > 0
       THEN pc' = "evolveTimesteps" /\ loop' = RangeLen(num)
            /\ last' = Call("evolveTimesteps", num, "running")
       ELSE pc' = "idle" /\ loop' = 0
            /\ last' = Call("evolveTimesteps", num, "none")
    /\ UNCHANGED <<d, d2, files, now, autosaves, q, wall, csv>>

\* One pass of `for _ in range(num): self.iterateTimeStep()`; loop counts the
\* passes still to make.
EvolveTimestepsLoop ==
    /\ pc = "evolveTimesteps"
    /\ \E t2 \in Later(now), r \in IterateOutcomes(d) :
         LET done == r.err # "none" \/ loop - 1 = 0
         IN /\ IterateOn(d, d', r, t2)
            /\ pc' = IF done THEN "idle" ELSE pc
            /\ loop' = IF done THEN 0 ELSE loop - 1
            /\ last' = [last EXCEPT !.err = IF done THEN r.err ELSE "running"]
            /\ autosaves' = Logged(autosaves, r.saved, now)
            /\ wall' = WallAfter(t2, r.saved)
    /\ UNCHANGED <<d2, pre, q, csv>>

\* d2 = DiffusionTimeCDF.fromFiles(cdf_file, scalars_file)
FromFiles(cdf_file, scalars_file, seed) ==
    /\ Idle
    /\ LET r == fromFiles(cdf_file, scalars_file, files, seed, now)
       IN /\ d2' = r.d
          /\ pc' = IF r.err = "none" THEN "loaded" ELSE "idle"
          /\ last' = [Call("fromFiles", 0, r.err) EXCEPT
                        !.roundtrip = /\ last.op = "saveState" /\ last.err = "none"
                                      /\ cdf_file = CdfPath(d.save_dir, d.id)
                                      /\ scalars_file = ScalarsPath(d.save_dir, d.id)]
    /\ pre' = Null
    /\ UNCHANGED <<d, files, now, loop, autosaves, q, wall, csv>>

\* d = d2: the caller goes on with the engine it loaded.
Adopt ==
    /\ pc = "loaded"
    /\ d' = d2
    /\ d2' = Null
    /\ pc' = "idle"
    /\ last' = Call("other", 0, "none")
    /\ pre' = Null
    /\ autosaves' = <<>>
    /\ wall' = [wall EXCEPT !.saved = wall.now]
    /\ UNCHANGED <<files, now, loop, q, csv>>

\* The caller drops the engine it loaded.
Discard ==
    /\ pc = "loaded"
    /\ d2' = Null
    /\ pc' = "idle"
    /\ last' = Call("other", 0, "none")
    /\ pre' = Null
    /\ UNCHANGED <<d, files, now, loop, autosaves, q, wall, csv>>

\* A findQuantiles that reverses the list it was given.
QuantilesAfter_Reversed(quantiles) == Reverse(quantiles)

\* The caller's list after findQuantiles: the list the wrapper reverses is
\* returnVals, the one the kernel returned.
QuantilesAfter(quantiles) == quantiles

\* super().getxvals(): the positions x = 2n + 2 - t of the entries 0..time.
getxvals(e) == [i \in 1..(e.time + 1) |-> 2 * (i - 1) + 2 - e.time]

\* xvals()
xvals(e) == getxvals(e)

\* d.xvals()
Xvals ==
    /\ Idle
    /\ q' = [given |-> <<>>, quantiles |-> <<>>, descending |-> FALSE, result |-> xvals(d)]
    /\ last' = Call("xvals", 0, "none")
    /\ pre' = Null
    /\ UNCHANGED <<d, d2, files, now, pc, loop, autosaves, wall, csv>>

\* d.findQuantiles(quantiles, descending)
FindQuantiles(quantiles, descending) ==
    /\ Idle
    /\ q' = [given |-> quantiles, quantiles |-> QuantilesAfter(quantiles),
             descending |-> descending,
             result |-> findQuantiles(d, quantiles, descending)]
    /\ last' = Call("findQuantiles", 0, "none")
    /\ pre' = Null
    /\ UNCHANGED <<d, d2, files, now, pc, loop, autosaves, wall, csv>>

\* The kernel's precondition on a quantile, a "1 in quantile" threshold: a
\* quantile below 1 is rejected.
KernelRejects(quantile) == quantile < 1

\* d.findQuantile(quantile)
FindQuantile(quantile) ==
    /\ Idle
    /\ IF KernelRejects(quantile)
       THEN /\ last' = Call("findQuantile", 0, "PreconditionViolation")
            /\ UNCHANGED q
       ELSE /\ q' = [given |-> <<quantile>>, quantiles |-> <<quantile>>, descending |-> FALSE,
                     result |-> <<findQuantile(d, quantile)>>]
            /\ last' = Call("findQuantile", 0, "none")
    /\ pre' = Null
    /\ UNCHANGED <<d, d2, files, now, pc, loop, autosaves, wall, csv>>

\* d2 = DiffusionTimeCDF(d.beta, d.tMax); d2.setBetaSeed(seed): a second
\* engine with the parameters of the first.
Construct2(seed) ==
    /\ Idle
    /\ d2' = setBetaSeed(DiffusionTimeCDF(d.beta, d.tMax, seed, now), seed)
    /\ last' = Call("other", 0, "none")
    /\ pre' = Null
    /\ UNCHANGED <<d, files, now, pc, loop, autosaves, q, wall, csv>>

\* d2.iterateTimeStep()
IterateTimeStep2 ==
    /\ pc = "idle" /\ d2 # Null
    /\ \E t2 \in Later(now), r \in IterateOutcomes(d2) :
         /\ IterateOn(d2, d2', r, t2)
         /\ last' = Call("iterateTimeStep2", 0, r.err)
         /\ wall' = WallAfter(t2, FALSE)
    /\ pre' = Null
    /\ UNCHANGED <<d, pc, loop, autosaves, q, csv>>

\* -------------------------------------------------------- the CSV output
\* The three operations that evolve through a list of times and write one row
\* for each to a CSV file.
CsvOps == {"evolveAndGetVariance", "evolveAndSaveQuantile", "evolveAndGetProbAndV"}

\* No CSV file yet and no call running.
NoCsv == [exists |-> FALSE, file |-> <<>>, buf |-> <<>>, done |-> <<>>, run |-> Null]

\* super().getGumbelVariance(nParticles): one value for each particle number,
\* here the number of entries of the array above 1 / N.
KernelGetGumbelVariance(e, nParticles) ==
    [i \in 1..Len(nParticles) |->
        Cardinality({n \in 0..e.time : e.CDF[n + 1] * nParticles[i] > Scale})]

\* getGumbelVariance(nParticles)
getGumbelVariance(e, nParticles) == KernelGetGumbelVariance(e, nParticles)

\* super().getProbandV(quantile): the stored quantity at the quantile's
\* position, and the velocity position / time kept as the pair of the two.
KernelGetProbandV(e, quantile) ==
    LET x == KernelFindQuantile(e, quantile)
        n == (x + e.time - 2) \div 2
    IN [prob |-> IF n <= e.time THEN e.CDF[n + 1] ELSE 0, v |-> <<x, e.time>>]

\* getProbandV(quantile)
getProbandV(e, quantile) == KernelGetProbandV(e, quantile)

\* d.getProbandV(quantile)
GetProbandV(quantile) ==
    /\ Idle
    /\ IF KernelRejects(quantile)
       THEN /\ last' = Call("getProbandV", 0, "PreconditionViolation")
            /\ UNCHANGED q
       ELSE /\ q' = [given |-> <<quantile>>, quantiles |-> <<quantile>>, descending |-> FALSE,
                     result |-> LET pv == getProbandV(d, quantile) IN <<pv.prob>> \o pv.v]
            /\ last' = Call("getProbandV", 0, "none")
    /\ pre' = Null
    /\ UNCHANGED <<d, d2, files, now, pc, loop, autosaves, wall, csv>>

\* d.getGumbelVariance(nParticles)
GetGumbelVariance(nParticles) ==
    /\ Idle
    /\ q' = [given |-> nParticles, quantiles |-> nParticles, descending |-> FALSE,
             result |-> getGumbelVariance(d, nParticles)]
    /\ last' = Call("getGumbelVariance", 0, "none")
    /\ pre' = Null
    /\ UNCHANGED <<d, d2, files, now, pc, loop, autosaves, wall, csv>>

\* evolveToTime(time) as one call, the process clock reading t throughout: the
\* engine and the files it leaves, the exception it ends with, and whether the
\* throttle wrote a checkpoint.
RECURSIVE evolveToTime(_, _, _, _)
evolveToTime(e, fs, time, t) ==
    IF ~KeepEvolving(e, time)
    THEN [d |-> e, files |-> fs, err |-> "none", saved |-> FALSE]
    ELSE LET r == iterateTimeStep(e, fs, t, t)
         IN IF r.err # "none"
            THEN [d |-> r.d, files |-> r.files, err |-> r.err, saved |-> r.saved]
            ELSE LET rest == evolveToTime(r.d, r.files, time, t)
                 IN [rest EXCEPT !.saved = r.saved \/ rest.saved]

\* An operation that asserts nothing about its second argument.
AssertFails_Never(op, arg) == FALSE

\* assert quantile >= 1, the first statement of evolveAndGetProbAndV.
AssertFails(op, arg) == op = "evolveAndGetProbAndV" /\ ~(arg >= 1)

\* The values of append a caller can pass: evolveAndGetProbAndV has no such
\* parameter.
AppendChoices(op) == IF op = "evolveAndGetProbAndV" THEN {FALSE} ELSE BOOLEAN

\* Whether the call writes the header row.
WritesHeader(op, append) == op = "evolveAndGetProbAndV" \/ ~append

\* Whether the header row is flushed as soon as it is written.
FlushesHeader(op) == op = "evolveAndGetVariance"

\* Whether each data row is flushed as soon as it is written.
FlushesRow(op) == op \in {"evolveAndGetVariance", "evolveAndGetProbAndV"}

\* The header row: the columns are named after the caller's list, in the
\* caller's order.
Header(op, arg) ==
    [kind |-> "header", time |-> 0,
     vals |-> IF op = "evolveAndGetProbAndV" THEN <<>> ELSE arg]

\* The data row of one time.
Row(op, e, arg) ==
    [kind |-> "row", time |-> e.time,
     vals |-> IF op = "evolveAndGetVariance"
              THEN findQuantiles(e, arg, FALSE) \o getGumbelVariance(e, arg)
              ELSE IF op = "evolveAndSaveQuantile"
              THEN findQuantiles(e, SortDesc(arg), FALSE)
              ELSE LET pv == getProbandV(e, arg) IN <<pv.prob>> \o pv.v]

\* The lists of times a caller passes: within the capacity, and past it.
TimesLists == {<<1>>, <<1, 2>>, <<MaxT + 1>>}

\* The quantiles a caller passes to a query of one quantile: below 1 and not.
QuantileArgs == {0, 2}

\* The second argument a caller passes: a list of particle numbers, a list of
\* quantiles, or one quantile, which can be below 1.
CsvArgs(op) ==
    IF op = "evolveAndGetVariance" THEN {<<2, 20>>}
    ELSE IF op = "evolveAndSaveQuantile" THEN {<<2, 20>>, <<20, 2>>}
    ELSE QuantileArgs

\* The statements of a CSV operation up to its loop: the assert of
\* evolveAndGetProbAndV, open(file, "a"), the header row.
CsvOpen(op, times, arg, append) ==
    /\ Idle
    /\ Len(csv.file) <= MaxRows
    /\ IF AssertFails(op, arg)
       THEN /\ last' = Call(op, 0, "AssertionError")
            /\ UNCHANGED <<pc, csv>>
       ELSE LET header == IF WritesHeader(op, append) THEN <<Header(op, arg)>> ELSE <<>>
            IN /\ csv' = [exists |-> TRUE,
                          file |-> IF FlushesHeader(op) THEN csv.file \o header ELSE csv.file,
                          buf |-> IF FlushesHeader(op) THEN <<>> ELSE header,
                          done |-> header,
                          run |-> [op |-> op, times |-> times, requested |-> times,
                                   arg |-> arg,
                                   append |-> append, existed |-> csv.exists,
                                   base |-> csv.file]]
               /\ pc' = "csv"
               /\ last' = Call(op, 0, "running")
    /\ pre' = d
    /\ UNCHANGED <<d, d2, files, now, loop, autosaves, q, wall>>

\* One pass of the loop over the times: evolveToTime(t), the query, the row
\* handed to the writer, and the flush where the operation has one. An
\* exception of evolveToTime leaves the operation, the time it was raised for
\* still the first of the times to come; the file object is dropped with it,
\* which writes its buffer out.
CsvPass ==
    /\ pc = "csv"
    /\ csv.run.times # <<>>
    /\ LET run == csv.run
           r == evolveToTime(d, files, Head(run.times), now)
           row == Row(run.op, r.d, run.arg)
       IN /\ d' = r.d
          /\ files' = r.files
          /\ autosaves' = Logged(autosaves, r.saved, now)
          /\ IF r.err # "none"
             THEN /\ csv' = [csv EXCEPT !.file = csv.file \o csv.buf, !.buf = <<>>]
                  /\ pc' = "idle"
                  /\ last' = [last EXCEPT !.err = r.err]
             ELSE /\ csv' = [csv EXCEPT
                               !.file = IF FlushesRow(run.op)
                                        THEN csv.file \o csv.buf \o <<row>> ELSE csv.file,
                               !.buf = IF FlushesRow(run.op)
                                       THEN <<>> ELSE Append(csv.buf, row),
                               !.done = Append(csv.done, row),
                               !.run = [run EXCEPT !.times = Tail(run.times)]]
                  /\ UNCHANGED <<pc, last>>
    /\ UNCHANGED <<d2, now, loop, pre, q, wall>>

\* f.close() after the last time: the buffer is written out.
CsvClose ==
    /\ pc = "csv"
    /\ csv.run.times = <<>>
    /\ csv' = [csv EXCEPT !.file = csv.file \o csv.buf, !.buf = <<>>]
    /\ pc' = "idle"
    /\ last' = [last EXCEPT !.err = "none"]
    /\ UNCHANGED <<d, d2, files, now, loop, pre, autosaves, q, wall>>

\* The run stops during a CSV operation: what the writer's buffer holds is
\* lost, but for the part the runtime wrote out because the buffer was full.
CsvStop ==
    /\ pc = "csv"
    /\ \E k \in 0..Len(csv.buf) :
         csv' = [csv EXCEPT !.file = csv.file \o SubSeq(csv.buf, 1, k), !.buf = <<>>]
    /\ pc' = "stopped"
    /\ UNCHANGED <<d, d2, files, now, loop, pre, last, autosaves, q, wall>>

\* ------------------------------------------------------ the specifications
\* A freshly constructed engine, empty save directories, the clock at 0.
Init ==
    /\ \E beta \in Betas, tMax \in TMaxes, seed \in Seeds :
         d = DiffusionTimeCDF(beta, tMax, seed, 0)
    /\ d2 = Null
    /\ files = [p \in Paths |-> NoFile]
    /\ now = 0
    /\ pc = "idle"
    /\ loop = 0
    /\ pre = Null
    /\ last = Call("other", 0, "none")
    /\ autosaves = <<>>
    /\ q = Null
    /\ wall = [now |-> 0, saved |-> 0]
    /\ csv = NoCsv

\* The facade under the process clock: one engine, its evolve calls, its
\* checkpoints by hand and by the throttle.
Next ==
    \/ \E id \in Ids : SetId(id)
    \/ \E dir \in Dirs \ {"ckpt"} : SetSaveDir(dir)
    \/ Tick
    \/ IterateTimeStep
    \/ SaveState
    \/ \E time \in 0..(MaxT + 1) : EvolveToTime(time)
    \/ EvolveToTimeLoop
    \/ \E num \in 0..(MaxT + 1) : EvolveTimesteps(num)
    \/ EvolveTimestepsLoop

Spec == Init /\ [][Next]_vars

\* Checkpoints and reloads: an engine is evolved, saved under several names,
\* loaded from any pair of files and carried on with. The clock is not
\* followed, so the throttle stays quiet; saveState is called while fewer than
\* MaxCkpts checkpoints exist.
NextFiles ==
    \/ \E id \in Ids : SetId(id)
    \/ \E dir \in ExistingDirs : SetSaveDir(dir)
    \/ IterateTimeStep
    \/ (CkptCount(files) < MaxCkpts /\ SaveState)
    \/ \E time \in 0..(MaxT + 1) : EvolveToTime(time)
    \/ EvolveToTimeLoop
    \/ \E num \in 0..(MaxT + 1) : EvolveTimesteps(num)
    \/ EvolveTimestepsLoop
    \/ \E c \in CdfPaths, s \in ScalarsPaths, seed \in Seeds : FromFiles(c, s, seed)
    \/ Adopt
    \/ Discard

SpecFiles == Init /\ [][NextFiles]_vars

\* The throttle under two clocks: the process runs or waits between the calls
\* and between the passes of the evolve loops, into a directory that exists or
\* one that does not.
NextClock ==
    \/ \E dir \in Dirs \ {"ckpt"} : SetSaveDir(dir)
    \/ Tick
    \/ Wait
    \/ IterateTimeStep
    \/ \E time \in 0..(MaxT + 1) : EvolveToTime(time)
    \/ EvolveToTimeLoop
    \/ \E num \in 0..(MaxT + 1) : EvolveTimesteps(num)
    \/ EvolveTimestepsLoop

SpecClock == Init /\ [][NextClock]_vars

\* Checkpoints written by runs that can stop: engines are constructed,
\* named, evolved and saved statement by statement; the process stops during
\* a save and the files are loaded by the next.
NextCrash ==
    \/ \E beta \in Betas, tMax \in TMaxes, seed \in Seeds : Construct(beta, tMax, seed)
    \/ \E id \in Ids : SetId(id)
    \/ IterateTimeStep
    \/ SaveStateBegin
    \/ SaveOpenCdf
    \/ SaveWriteValue
    \/ SaveOpenScalars
    \/ SaveDumpScalars
    \/ Crash
    \/ \E seed \in Seeds : Reload(seed)

SpecCrash == Init /\ [][NextCrash]_vars

\* The facade call by call: steps, checkpoints by hand and by the throttle,
\* and queries, in every state from Ready(time = 0) to Terminal.
NextFacade ==
    \/ \E id \in Ids : SetId(id)
    \/ \E dir \in Dirs \ {"ckpt"} : SetSaveDir(dir)
    \/ Tick
    \/ IterateTimeStep
    \/ SaveState
    \/ \E quantile \in Quantiles : FindQuantile(quantile)

SpecFacade == Init /\ [][NextFacade]_vars

\* The batched quantile query on the states an engine evolves through.
NextQuery ==
    \/ IterateTimeStep
    \/ \E quantiles \in QuantileLists, descending \in BOOLEAN :
         FindQuantiles(quantiles, descending)

SpecQuery == Init /\ [][NextQuery]_vars

\* The CSV operations on one output file: calls one after another, on the
\* file the earlier calls left, each running to its end, to an exception or
\* to the point where the run stops.
NextCsv ==
    \/ \E op \in CsvOps, times \in TimesLists :
         \E arg \in CsvArgs(op), append \in AppendChoices(op) :
           CsvOpen(op, times, arg, append)
    \/ CsvPass
    \/ CsvClose
    \/ CsvStop

SpecCsv == Init /\ [][NextCsv]_vars

\* The operations that take one quantile, with quantiles below 1 and not, in
\* every state an engine steps through.
NextQuantile ==
    \/ IterateTimeStep
    \/ \E quantile \in QuantileArgs : FindQuantile(quantile)
    \/ \E quantile \in QuantileArgs : GetProbandV(quantile)
    \/ \E times \in TimesLists, quantile \in QuantileArgs :
         CsvOpen("evolveAndGetProbAndV", times, quantile, FALSE)
    \/ CsvPass
    \/ CsvClose

SpecQuantile == Init /\ [][NextQuantile]_vars

\* The operations that read the engine: checkpoints by hand, into a directory
\* that exists or one that does not, and every query, the batched one on the
\* longest lists, in every state an engine steps through.
NextRead ==
    \/ \E id \in Ids : SetId(id)
    \/ \E dir \in Dirs \ {"ckpt"} : SetSaveDir(dir)
    \/ IterateTimeStep
    \/ SaveState
    \/ \E quantile \in Quantiles : FindQuantile(quantile)
    \/ \E quantiles \in {l \in QuantileLists : Len(l) = MaxQ} :
         FindQuantiles(quantiles, FALSE)
    \/ \E nParticles \in CsvArgs("evolveAndGetVariance") : GetGumbelVariance(nParticles)
    \/ \E quantile \in Quantiles : GetProbandV(quantile)
    \/ Xvals

SpecRead == Init /\ [][NextRead]_vars

\* The evolve calls with every target: ahead of the engine, at its time,
\* behind it, past the capacity, and counts of steps down to -1, while the
\* clock runs and the save directory exists or does not.
NextEvolve ==
    \/ \E dir \in Dirs \ {"ckpt"} : SetSaveDir(dir)
    \/ Tick
    \/ IterateTimeStep
    \/ \E time \in 0..(MaxT + 1) : EvolveToTime(time)
    \/ EvolveToTimeLoop
    \/ \E num \in (-1)..(MaxT + 1) : EvolveTimesteps(num)
    \/ EvolveTimestepsLoop

SpecEvolve == Init /\ [][NextEvolve]_vars

\* The lists of times a caller passes: rising, falling, and running past the
\* capacity.
RowTimes == {<<1, 2>>, <<2, 1>>, <<1, MaxT + 1>>}

\* The CSV operations with their headers, call after call on one engine.
NextRows ==
    \/ \E op \in CsvOps, times \in RowTimes :
         \E arg \in CsvArgs(op) : CsvOpen(op, times, arg, FALSE)
    \/ CsvPass
    \/ CsvClose

SpecRows == Init /\ [][NextRows]_vars

\* Two engines with the same beta and tMax, each seeded before its first
\* step and stepped on its own, while the clock runs and the throttle of
\* either writes its checkpoints.
NextPair ==
    \/ (d.time = 0 /\ d.draws = 0 /\ \E seed \in Seeds : SetBetaSeed(seed))
    \/ (d2 = Null /\ \E seed \in Seeds : Construct2(seed))
    \/ Tick
    \/ IterateTimeStep
    \/ IterateTimeStep2

SpecPair == Init /\ [][NextPair]_vars

\* ================================================================= claims
\* A call of iterateTimeStep: by the caller, or by a pass of an evolve loop.
IterateCall == IterateTimeStep \/ EvolveToTimeLoop \/ EvolveTimestepsLoop

\* The kernel's state is the same before and after the step.
KernelUntouched == d'.time = d.time /\ d'.CDF = d.CDF /\ d'.draws = d.draws /\ d'.seed = d.seed

\* The throttle's checkpoint is due and cannot be written.
CheckpointFails == SaveDue(d, now) /\ ~Writable(CdfPath(d.save_dir, d.id))

\* C1 as stated: every iterateTimeStep() call made at time = tMax ends with the
\* at-capacity ValueError, runs no recurrence step and leaves time at tMax.
C1_AlwaysValueError ==
    [][(IterateCall /\ d.time = d.tMax) =>
         (last'.err = "ValueError" /\ KernelUntouched /\ d'.time = d'.tMax)]_vars

\* C1, amended: an iterateTimeStep() call made at time = tMax never returns and
\* never runs the recurrence step, and time stays tMax, however often it is
\* repeated; it ends with the at-capacity ValueError unless the throttle's
\* checkpoint was due and could not be written, and then with that OSError.
C1_RejectedAtCapacity ==
    [][(IterateCall /\ d.time = d.tMax) =>
         /\ last'.err = (IF CheckpointFails THEN "OSError" ELSE "ValueError")
         /\ KernelUntouched
         /\ d'.time = d'.tMax]_vars

\* C1 witness: a call at time = tMax has been rejected with the ValueError.
C1_Witness ==
    /\ last.op = "iterateTimeStep" /\ last.err = "ValueError"
    /\ d.time = d.tMax /\ d.draws = d.tMax

\* The valid time range of an engine.
TimeInRange(e) == 0 <= e.time /\ e.time <= e.tMax

\* C2: the time of every engine there is, the one evolved and the one
\* fromFiles returned, lies in 0..tMax in every state the calls reach, the
\* calls that fail included.
C2_TimeInRange ==
    /\ d # Null => TimeInRange(d)
    /\ d2 # Null => TimeInRange(d2)

\* An engine loaded at capacity is carried on with, and its next step is
\* rejected.
C2_Witness ==
    /\ last.op = "iterateTimeStep" /\ last.err = "ValueError"
    /\ d.time = d.tMax /\ d.draws = 0 /\ d.time > 0

\* C3: after saveState() on an engine with its id set, fromFiles on the two
\* files just written returns an engine equal to the original in time, beta,
\* tMax, id, save_dir and in the CDF entries 0..time.
C3_RoundTrip ==
    (last.op = "fromFiles" /\ last.roundtrip /\ d.id # None) =>
        /\ last.err = "none"
        /\ d2 # Null
        /\ d2.time = d.time
        /\ d2.beta = d.beta
        /\ d2.tMax = d.tMax
        /\ d2.id = d.id
        /\ d2.save_dir = d.save_dir
        /\ \A i \in 1..(d.time + 1) : d2.CDF[i] = d.CDF[i]

\* An evolved engine with an id, saved into a directory of its own and loaded
\* back.
C3_Witness ==
    /\ last.op = "fromFiles" /\ last.roundtrip
    /\ d.id = "a" /\ d.save_dir = "ckpt"
    /\ d.time = MaxT /\ d.CDF[2] > 0
    /\ d2 # Null

\* C4: saveState() on an engine whose id is None fails and writes no file.
C4_SaveRequiresId ==
    [][(SaveState /\ d.id = None) => (last'.err # "none" /\ files' = files)]_vars

\* The number of values the CDF file at path c holds, and the time the scalars
\* file at path s records.
ValuesIn(c) == Len(files[c].lines)
TimeIn(s) == FromDigits(files[s].vars.time)

\* C5: fromFiles on a CDF file and a scalars file that both exist, the first
\* holding a number of values other than the recorded time + 1, returns no
\* engine.
C5_InconsistentPairFails ==
    [][\A c \in CdfPaths, s \in ScalarsPaths, seed \in Seeds :
         (/\ FromFiles(c, s, seed)
          /\ Exists(files, c) /\ Exists(files, s)
          /\ ValuesIn(c) # TimeIn(s) + 1)
         => (last'.err # "none" /\ d2' = Null)]_vars

\* The time passed since the throttle of d was last reset, by the clock the
\* code reads and by the wall clock.
Elapsed == now - d.last_saved_time
WallElapsed == wall.now - wall.saved

\* The call called saveState() from the throttle: it wrote a checkpoint, or
\* the write raised.
ThrottleFired == autosaves' # autosaves \/ last'.err = "OSError"

\* The step went on after the throttle: it was made, or rejected at capacity.
StepProceeded == d'.time = d.time + 1 \/ d.time = d.tMax

\* Two consecutive checkpoints of the throttle lie more than the interval
\* apart.
Separated == Len(autosaves) = 2 => autosaves[2] - autosaves[1] > save_interval

\* The throttle measured by the wall clock: every call of iterateTimeStep()
\* that starts with more than the interval of wall-clock time elapsed calls
\* saveState() and resets the clock, every other call writes nothing.
C6_WallClockThrottle ==
    /\ [][IterateCall =>
            IF WallElapsed > save_interval
            THEN /\ ThrottleFired
                 /\ files' = saveState(d, files).files
                 /\ last'.err # "OSError" => (wall'.saved = wall'.now /\ StepProceeded)
            ELSE /\ ~ThrottleFired
                 /\ files' = files]_vars
    /\ []Separated

\* C6: every call of iterateTimeStep() that starts with more than the
\* interval elapsed on the process clock since the last reset (or since
\* construction) calls saveState() and, unless that raises, resets the clock
\* to the process time and goes on with the step; every other call writes
\* nothing and leaves the clock; two consecutive checkpoints of the throttle
\* lie more than the interval apart.
C6_ThrottlePolicy ==
    /\ [][IterateCall =>
            IF Elapsed > save_interval
            THEN /\ ThrottleFired
                 /\ files' = saveState(d, files).files
                 /\ last'.err # "OSError" => (d'.last_saved_time = now' /\ StepProceeded)
                 /\ last'.err = "OSError" => UNCHANGED d
            ELSE /\ ~ThrottleFired
                 /\ files' = files
                 /\ d'.last_saved_time = d.last_saved_time]_vars
    /\ []Separated

\* The throttle has written two checkpoints, the second just now, in a run
\* in which the process also waited.
C6_Witness ==
    /\ Len(autosaves) = 2
    /\ d.last_saved_time = now
    /\ wall.now > now
    /\ Exists(files, CdfPath(d.save_dir, d.id))

\* What the recurrence owns of an engine: the time, the array, the random
\* source and how far it has been drawn from.
KernelState(e) == <<e.time, e.CDF, e.seed, e.draws>>

\* The engine after n calls of iterateTimeStep() in a row.
RECURSIVE Iterated(_, _)
Iterated(e, n) ==
    IF n = 0 THEN e
    ELSE Iterated(iterateTimeStep(e, files, e.last_saved_time, e.last_saved_time).d, n - 1)

\* An evolve call has ended: evolveToTime(t) that began at time 0 with
\* 0 <= t <= tMax, or evolveTimesteps(n) that began with time + n <= tMax.
EvolveEnded ==
    /\ pc = "idle" /\ pre # Null
    /\ \/ last.op = "evolveToTime" /\ pre.time = 0 /\ last.arg <= pre.tMax
       \/ last.op = "evolveTimesteps" /\ pre.time + last.arg <= pre.tMax

\* C7: evolveToTime(t) from time 0 and evolveTimesteps(n) leave the time, the
\* array and the random source as t, respectively n, calls of
\* iterateTimeStep() leave them; a call a failing checkpoint ended leaves
\* them as the calls made before it did.
C7_Composable ==
    EvolveEnded =>
        /\ last.err \in {"none", "OSError"}
        /\ last.err = "none" => KernelState(d) = KernelState(Iterated(pre, last.arg))
        /\ last.err = "OSError" =>
             \E j \in 0..(last.arg - 1) : KernelState(d) = KernelState(Iterated(pre, j))

\* evolveToTime(MaxT) from time 0 has returned, the throttle having written a
\* checkpoint on the way.
C7_Witness ==
    /\ EvolveEnded /\ last.err = "none"
    /\ last.op = "evolveToTime" /\ last.arg = MaxT
    /\ d.time = MaxT /\ d.draws = MaxT
    /\ Len(autosaves) > 0

\* An evolve call has ended whose target lay past tMax.
Overshoot ==
    /\ pc = "idle" /\ pre # Null
    /\ \/ last.op = "evolveToTime" /\ last.arg > pre.tMax
       \/ last.op = "evolveTimesteps" /\ pre.time + last.arg > pre.tMax

\* evolveToTime(t) with t > tMax and evolveTimesteps(n) with time + n > tMax
\* always end with the at-capacity error.
C8_AlwaysAtCapacity == Overshoot => last.err = "ValueError"

\* C8: evolveToTime(t) with t > tMax and evolveTimesteps(n) with
\* time + n > tMax never return: they end with the at-capacity error, the
\* engine at time tMax, unless a checkpoint that was due could not be written
\* on the way, and then with that I/O error.
C8_FailsPastCapacity ==
    Overshoot =>
        \/ last.err = "ValueError" /\ d.time = d.tMax
        \/ /\ last.err = "OSError"
           /\ ~Writable(CdfPath(d.save_dir, d.id))
           /\ Elapsed > save_interval

\* evolveTimesteps past the capacity, begun part of the way, has ended with
\* the at-capacity error.
C8_Witness ==
    /\ Overshoot /\ last.err = "ValueError"
    /\ last.op = "evolveTimesteps"
    /\ pre.time > 0 /\ pre.time < pre.tMax
    /\ d.time = d.tMax

\* The positions findQuantile gives for the quantiles of a list, one call
\* each.
PerCall(quantiles) == [i \in 1..Len(quantiles) |-> findQuantile(d, quantiles[i])]

IsAscending(s) == \A i \in 1..(Len(s) - 1) : s[i] <= s[i + 1]
IsDescending(s) == \A i \in 1..(Len(s) - 1) : s[i] >= s[i + 1]

\* findQuantiles returns the positions in the order of its input, whatever
\* the list and the flag.
C9_InputOrder == last.op = "findQuantiles" => q.result = PerCall(q.quantiles)

\* C9: findQuantiles returns one position per quantile, in descending order
\* of the quantiles when the flag is set and in ascending order when it is
\* not; that is the order of the input when the list is sorted as the flag
\* says.
C9_SortedInputOrder ==
    last.op = "findQuantiles" =>
        /\ Len(q.result) = Len(q.quantiles)
        /\ q.result = PerCall(IF q.descending THEN SortDesc(q.quantiles)
                              ELSE Reverse(SortDesc(q.quantiles)))
        /\ (IF q.descending THEN IsDescending(q.quantiles) ELSE IsAscending(q.quantiles))
              => q.result = PerCall(q.quantiles)

\* Three quantiles in ascending order asked with the flag unset, on an engine
\* in which they lie at different positions.
C9_Witness ==
    /\ last.op = "findQuantiles"
    /\ ~q.descending
    /\ q.quantiles = <<2, 5, 20>>
    /\ q.result[1] # q.result[3]
    /\ q.result = PerCall(q.quantiles)

SameState(a, b) ==
    /\ a.time = b.time /\ a.beta = b.beta /\ a.tMax = b.tMax
    /\ a.id = b.id /\ a.save_dir = b.save_dir
    /\ a.CDF = b.CDF

\* C11: when the process stops during saveState() while an earlier checkpoint
\* of the same name is on disk, fromFiles on the two files fails or returns
\* the state a saveState() saved completely (the one the files held before).
C11_CrashDetectable == (pc = "reloaded" /\ pre # Null) => SameState(d2, pre)

\* C12: the array of every engine there is, the one evolved and the one
\* fromFiles returned, has exactly tMax + 1 entries.
C12_LengthIsCapacity ==
    /\ d # Null => Len(d.CDF) = d.tMax + 1
    /\ d2 # Null => Len(d2.CDF) = d2.tMax + 1

\* fromFiles has returned an engine saved part of the way: its array is longer
\* than the file it was read from.
C12_Witness ==
    /\ pc = "loaded"
    /\ d2.time > 0 /\ d2.time < d2.tMax
    /\ Len(d2.CDF) = d2.tMax + 1
    /\ Len(d2.CDF) > Len(files[CdfPath(d2.save_dir, d2.id)].lines)

\* The file saveState() of d writes first can be written.
CanSave == Writable(CdfPath(d.save_dir, d.id))

\* The facade accepts iterateTimeStep() in every state but Terminal, and
\* saveState() with an id and the queries in every state, whatever the save
\* directory and the clock.
C13_AlwaysAccepts ==
    [][/\ (IterateTimeStep /\ d.time < d.tMax) =>
           (last'.err = "none" /\ d'.time = d.time + 1)
       /\ (IterateTimeStep /\ d.time = d.tMax) =>
           (last'.err # "none" /\ d'.time = d.time)
       /\ (SaveState /\ d.id # None) => last'.err = "none"
       /\ last'.op = "findQuantile" => last'.err = "none"
       /\ d'.draws = d'.time /\ d'.time <= d'.tMax]_vars

\* C13: iterateTimeStep() at time < tMax is accepted and adds exactly 1 to
\* time, unless the checkpoint of the throttle is due and cannot be written,
\* and then it ends with that I/O error and changes nothing; at time = tMax it
\* is rejected; so the accepted calls of a fresh engine number its time, and
\* at most tMax. saveState() with an id is accepted in every state in which
\* the save directory exists, and the queries in every state.
C13_FacadeStateMachine ==
    [][/\ (IterateTimeStep /\ d.time < d.tMax) =>
           IF Elapsed > save_interval /\ ~CanSave
           THEN last'.err = "OSError" /\ d' = d
           ELSE last'.err = "none" /\ d'.time = d.time + 1
       /\ (IterateTimeStep /\ d.time = d.tMax) =>
           (last'.err # "none" /\ d'.time = d.time)
       /\ (SaveState /\ d.id # None) =>
           (last'.err = IF CanSave THEN "none" ELSE "OSError")
       /\ last'.op = "findQuantile" => last'.err = "none"
       /\ d'.draws = d'.time /\ d'.time <= d'.tMax]_vars

\* A named engine in Terminal, reached in tMax steps, has just been saved.
C13_Witness ==
    /\ last.op = "saveState" /\ last.err = "none"
    /\ d.id = "a"
    /\ d.time = d.tMax /\ d.draws = d.tMax
    /\ q # Null

\* The rows the running call has handed to the writer for completed times
\* are in the file, after what the file held when the call opened it.
RowsKept ==
    \A i \in 1..Len(csv.done) :
       csv.done[i].kind = "row" =>
          /\ Len(csv.run.base) + i <= Len(csv.file)
          /\ csv.file[Len(csv.run.base) + i] = csv.done[i]

\* C14: when the run stops during a CSV operation, every data row the
\* operation wrote for an already completed time is in the file.
C14_RowsSurviveStop == pc = "stopped" => RowsKept

\* The number of header rows among rows.
HeaderCount(rows) == Cardinality({i \in 1..Len(rows) : rows[i].kind = "header"})

\* A CSV operation has run to its end.
Completed == pc = "idle" /\ last.op \in CsvOps /\ last.err = "none" /\ csv.run # Null

\* The call was made as a caller who keeps one header in the file makes it:
\* on a file that does not exist, or on one that holds its header in the first
\* line; appending when the file exists, wherever the operation lets the
\* caller say so.
Orderly ==
    LET run == csv.run
    IN /\ run.existed => /\ Len(run.base) > 0
                          /\ run.base[1].kind = "header"
                          /\ HeaderCount(run.base) = 1
       /\ run.append = (run.existed /\ TRUE \in AppendChoices(run.op))

\* C15: a CSV operation that has run to its end wrote a header row exactly
\* when it was not called on an existing file, and the file holds one header
\* row, its first line.
C15_HeaderUnlessAppending ==
    (Completed /\ Orderly) =>
       /\ HeaderCount(csv.done) = (IF csv.run.existed THEN 0 ELSE 1)
       /\ HeaderCount(csv.file) = 1
       /\ csv.file[1].kind = "header"

\* A call of one of the three operations with the quantile.
QuantileCall(quantile) ==
    \/ FindQuantile(quantile)
    \/ GetProbandV(quantile)
    \/ \E times \in TimesLists : CsvOpen("evolveAndGetProbAndV", times, quantile, FALSE)

\* C16: findQuantile, getProbandV and evolveAndGetProbAndV called with a
\* quantile below 1 end with an exception at once: no time step is taken, the
\* engine is as it was, and no output file is created or written.
C16_FailsFast ==
    [][\A quantile \in QuantileArgs :
         (quantile < 1 /\ QuantileCall(quantile)) =>
            /\ last'.err \notin {"none", "running"}
            /\ d' = d /\ files' = files /\ csv' = csv /\ q' = q /\ pc' = pc]_vars

C16_Witness ==
    /\ last.op = "evolveAndGetProbAndV" /\ last.err = "AssertionError"
    /\ d.time > 0 /\ d.time < d.tMax /\ ~csv.exists

\* The entries 0..time of the array of e never grow with the index.
NonIncreasing(e) == \A n \in 1..e.time : e.CDF[n] >= e.CDF[n + 1]

\* The entries 0..time of the array of e never fall with the index.
NonDecreasing(e) == \A n \in 1..e.time : e.CDF[n] <= e.CDF[n + 1]

EvolveFailed ==
    /\ pc = "idle" /\ pre # Null
    /\ last.op \in {"evolveToTime", "evolveTimesteps"}
    /\ last.err = "ValueError"

\* C18: when evolveToTime(t) or evolveTimesteps(n) fails with the at-capacity
\* error, the time and the array are the same as before the call.
C18_NoPartialMutation == EvolveFailed => (d.time = pre.time /\ d.CDF = pre.CDF)

\* C18, amended: when evolveToTime(t) or evolveTimesteps(n) fails with the
\* at-capacity error, the engine is at time tMax, with the array and the
\* random source as the tMax - time steps from the state before the call
\* leave them; the time and the array are the same as before the call only
\* when the call began at time tMax.
C18_StepsBeforeFailureKept ==
    EvolveFailed =>
       /\ d.time = d.tMax
       /\ KernelState(d) = KernelState(Iterated(pre, pre.tMax - pre.time))
       /\ (d.time = pre.time /\ d.CDF = pre.CDF) <=> (pre.time = pre.tMax)

C18_Witness ==
    /\ EvolveFailed /\ last.op = "evolveToTime"
    /\ pre.time = 0 /\ d.time = d.tMax /\ d.tMax > 1
    /\ d.CDF # pre.CDF

\* The engine e is laid out as the claim says for the values saved and the
\* record rec: the values in order in entries 0..time, zero in every entry
\* after them up to tMax, the scalars those of the record.
LaidOut(e, saved, rec) ==
    /\ Len(e.CDF) = rec.tMax + 1
    /\ Prefix(e.CDF, rec.time + 1) = saved
    /\ \A i \in (rec.time + 2)..(rec.tMax + 1) : e.CDF[i] = 0
    /\ e.time = rec.time /\ e.beta = rec.beta
    /\ e.id = rec.id /\ e.save_dir = rec.save_dir

\* C19: the engine fromFiles returns holds the saved values in order in the
\* entries 0..time and zero in the entries time + 1..tMax; its beta, id,
\* save_dir and time are those of the scalars record.
C19_Layout ==
    [][\A c \in CdfPaths, s \in ScalarsPaths, seed \in Seeds :
         (FromFiles(c, s, seed) /\ last'.err = "none")
         => LaidOut(d2', loadArrayQuad(files[c]), json_load(files[s]))]_vars

\* The operations that only read the engine.
ReadOps == {"saveState", "findQuantile", "findQuantiles", "getGumbelVariance",
            "getProbandV", "xvals"}

\* C20: saveState() and the queries findQuantile, findQuantiles,
\* getGumbelVariance, getProbandV and xvals leave time, beta, tMax, CDF, id and
\* save_dir as they were, whether they return or raise, and findQuantiles
\* leaves the caller's list in the order it had.
C20_ReadOnly ==
    [][/\ last'.op \in ReadOps => SameState(d', d)
       /\ last'.op = "findQuantiles" => q'.quantiles = q'.given]_vars

\* findQuantiles on an unsorted list, on an engine that was stepped and
\* saved.
C20_Witness ==
    /\ last.op = "findQuantiles" /\ q # Null
    /\ Len(q.quantiles) = MaxQ
    /\ ~IsAscending(q.quantiles) /\ ~IsDescending(q.quantiles)
    /\ d.time > 0 /\ d.id # None
    /\ Exists(files, CdfPath(d.save_dir, d.id))

\* A call of evolveToTime with a target at or behind the engine's time, or of
\* evolveTimesteps with a count of 0 or less.
NoopCall ==
    \/ \E time \in 0..(MaxT + 1) : time <= d.time /\ EvolveToTime(time)
    \/ \E num \in (-1)..(MaxT + 1) : num <= 0 /\ EvolveTimesteps(num)

\* C21: evolveToTime(t) with t <= time and evolveTimesteps(n) with n <= 0
\* return at once without an error, whatever the time, the clock and the save
\* directory: no step, no draw, no checkpoint, the throttle not reset; and no
\* step of an evolve call lowers the time.
C21_SilentNoop ==
    [][/\ NoopCall =>
            /\ last'.err = "none" /\ pc' = "idle"
            /\ d' = d /\ files' = files /\ autosaves' = autosaves
       /\ (pc # "idle" \/ last'.op \in {"evolveToTime", "evolveTimesteps"}) =>
            d'.time >= d.time]_vars

\* evolveToTime to a time behind an engine at its capacity has returned, the
\* checkpoint interval exceeded and the save directory missing.
C21_Witness ==
    /\ pc = "idle" /\ pre # Null
    /\ last.op = "evolveToTime" /\ last.err = "none"
    /\ last.arg < d.time /\ d.time = d.tMax /\ d = pre
    /\ Elapsed > save_interval /\ d.save_dir = "nodir"

\* The two files of d hold the checkpoint of d as it was before the step.
CheckpointWritten ==
    /\ files'[CdfPath(d.save_dir, d.id)] = saveArrayQuad(getSaveCDF(d))
    /\ files'[ScalarsPath(d.save_dir, d.id)] = json_dump(ScalarsOf(d))

\* C22: one call of iterateTimeStep() runs the throttle, then the capacity
\* test, then the step, and a stage that fails ends the call. With the
\* interval exceeded, a checkpoint that cannot be written ends the call with
\* nothing changed and the clock not reset; one that can be written is written
\* and the clock reset, at time = tMax before the capacity error and otherwise
\* before the step. With the interval not exceeded nothing is written and the
\* capacity test alone decides.
C22_StageOrder ==
    [][IterateTimeStep =>
         IF Elapsed > save_interval /\ ~CanSave
         THEN last'.err = "OSError" /\ d' = d /\ files' = files
         ELSE /\ IF Elapsed > save_interval
                 THEN CheckpointWritten /\ d'.last_saved_time = now'
                 ELSE files' = files /\ d'.last_saved_time = d.last_saved_time
              /\ IF d.time = d.tMax
                 THEN last'.err = "ValueError" /\ KernelUntouched
                 ELSE last'.err = "none" /\ d'.time = d.time + 1]_vars

\* A call at time = tMax with the interval exceeded has written its
\* checkpoint, reset the clock and raised the capacity error.
C22_Witness ==
    /\ last.op = "iterateTimeStep" /\ last.err = "ValueError"
    /\ d.time = d.tMax /\ d.last_saved_time = now /\ now > save_interval
    /\ autosaves # <<>>
    /\ Exists(files, ScalarsPath(d.save_dir, d.id))
    /\ TimeIn(ScalarsPath(d.save_dir, d.id)) = d.tMax

\* evolveAndSaveQuantile is running, has written its header and, last, the
\* data row of the time the engine is at.
QuantileRowWritten ==
    /\ pc = "csv"
    /\ csv.run.op = "evolveAndSaveQuantile" /\ ~csv.run.append
    /\ Len(csv.done) > 1
    /\ csv.done[1].kind = "header"
    /\ csv.done[Len(csv.done)].kind = "row"

\* C23: in evolveAndSaveQuantile the k-th position of a data row is the
\* position of the quantile the k-th column of the header of the same call
\* names, for every list of quantiles.
C23_ColumnsMatchHeader ==
    QuantileRowWritten =>
       LET header == csv.done[1]
           row == csv.done[Len(csv.done)]
       IN /\ Len(row.vals) = Len(header.vals)
          /\ \A k \in 1..Len(header.vals) :
                row.vals[k] = findQuantile(d, header.vals[k])

\* The data rows the running (or last) CSV operation has written.
DataRows == SelectSeq(csv.done, LAMBDA r : r.kind = "row")

\* The time the engine had before the i-th request of the operation: its time
\* before the call, or the time of the row before.
TimeBefore(i) == IF i = 1 THEN pre.time ELSE DataRows[i - 1].time

\* C24: a CSV operation writes one data row for each requested time it has
\* come to, in the order of the requests; the time column of a row is the
\* larger of the engine's time before the request and the requested time, so
\* it never falls; an operation that returns has a row for every request, and
\* one a request above tMax ended has the rows of the requests before it, all
\* handed to the file, and the engine at tMax.
C24_OneRowPerTime ==
    (last.op \in CsvOps /\ last.err \in {"running", "none", "ValueError"}) =>
       LET run == csv.run
           n == Len(run.requested) - Len(run.times)
       IN /\ Len(DataRows) = n
          /\ \A i \in 1..n : DataRows[i].time = Max(TimeBefore(i), run.requested[i])
          /\ \A i \in 1..(n - 1) : DataRows[i].time <= DataRows[i + 1].time
          /\ last.err = "none" => n = Len(run.requested)
          /\ last.err = "ValueError" =>
                /\ Head(run.times) > d.tMax /\ d.time = d.tMax
                /\ csv.buf = <<>>
                /\ SubSeq(csv.file, Len(run.base) + 1, Len(csv.file)) = csv.done

\* An operation asked for time 2 and then time 1 has returned with two rows,
\* both of time 2.
C24_Witness ==
    /\ Completed
    /\ Len(csv.run.requested) = 2 /\ csv.run.requested[1] > csv.run.requested[2]
    /\ Len(DataRows) = 2
    /\ DataRows[1].time = csv.run.requested[1]
    /\ DataRows[2].time = csv.run.requested[1]
====
